---------------------------- MODULE Spec2Model ----------------------------
(***************************************************************************)
(* New-Repo-Task (src/New-Repo-Task/index.ts, lines 1-357): a one-shot job *)
(* that reads a scaffold request from the environment, creates the         *)
(* destination repository, lists the template repository's tree, fetches   *)
(* and renders every file under the variant's directory and writes the     *)
(* rendered files to the destination.                                      *)
(*                                                                         *)
(* Text is modelled as a sequence of one-character strings, so that        *)
(* startsWith, endsWith, basename, dirname, join, toLowerCase, base64 and  *)
(* the placeholder substitution are computed character by character.       *)
(***************************************************************************)
EXTENDS Integers, Sequences, FiniteSets, TLC

(***************************************************************************)
(* JavaScript values                                                       *)
(***************************************************************************)
\* The JavaScript value undefined (an unset environment variable, an absent
\* property). It is a sequence so that it compares with texts, and no text:
\* its only element is not a single character.
undefined == <<"undefined">>

\* JavaScript truthiness of a string-or-undefined value: `if (x)`, `!x`, `a || b`.
Truthy(x) == x # undefined /\ x # <<>>

\* a || b on string-or-undefined values.
Or(a, b) == IF Truthy(a) THEN a ELSE b

(***************************************************************************)
(* Characters                                                              *)
(***************************************************************************)
\* The printable ASCII characters, code 32 (space) to 126 (~), in code order
\* (code 96, the grave accent, is written by name).
Ascii ==
  << " ", "!", "\"", "#", "$", "%", "&", "'", "(", ")", "*", "+", ",", "-", ".", "/",
     "0", "1", "2", "3", "4", "5", "6", "7", "8", "9", ":", ";", "<", "=", ">", "?",
     "@", "A", "B", "C", "D", "E", "F", "G", "H", "I", "J", "K", "L", "M", "N", "O",
     "P", "Q", "R", "S", "T", "U", "V", "W", "X", "Y", "Z", "[", "\\", "]", "^", "_",
     "GRAVE", "a", "b", "c", "d", "e", "f", "g", "h", "i", "j", "k", "l", "m", "n", "o",
     "p", "q", "r", "s", "t", "u", "v", "w", "x", "y", "z", "{", "|", "}", "~" >>

\* The byte a character is stored as (UTF-8 of an ASCII character).
Ord(c) ==
  IF c = "\n" THEN 10
  ELSE IF \E i \in 1..Len(Ascii) : Ascii[i] = c
       THEN 31 + (CHOOSE i \in 1..Len(Ascii) : Ascii[i] = c)
       ELSE 63

\* The character a byte decodes to (Buffer.toString() on ASCII bytes); a byte
\* outside the modelled range decodes to the replacement character.
Chr(b) ==
  IF b = 10 THEN "\n"
  ELSE IF b >= 32 /\ b <= 126 THEN Ascii[b - 31]
       ELSE "U+FFFD"

\* String.prototype.toLowerCase on one character.
LowerChar(c) ==
  LET b == Ord(c) IN IF b >= 65 /\ b <= 90 THEN Chr(b + 32) ELSE c

toLowerCase(s) == [i \in 1..Len(s) |-> LowerChar(s[i])]

startsWith(s, p) == Len(s) >= Len(p) /\ SubSeq(s, 1, Len(p)) = p

endsWith(s, p) == Len(s) >= Len(p) /\ SubSeq(s, Len(s) - Len(p) + 1, Len(s)) = p

\* The position of the first occurrence of p in s at or after position from, 0
\* when there is none (String.prototype.indexOf, 1-based).
IndexOf(s, p, from) ==
  LET hits == {i \in from..(Len(s) - Len(p) + 1) : SubSeq(s, i, i + Len(p) - 1) = p}
  IN IF hits = {} THEN 0 ELSE CHOOSE i \in hits : \A j \in hits : i <= j

\* s.includes(p)
Includes(s, p) == IndexOf(s, p, 1) # 0

(***************************************************************************)
(* path (Node, POSIX flavour)                                              *)
(***************************************************************************)
LastSlash(p) ==
  LET hits == {i \in 1..Len(p) : p[i] = "/"}
  IN IF hits = {} THEN 0 ELSE CHOOSE i \in hits : \A j \in hits : j <= i

\* path.basename(p): the part after the last separator.
basename(p) == SubSeq(p, LastSlash(p) + 1, Len(p))

\* path.dirname(p): the part before the last separator, "." when there is none.
dirname(p) ==
  IF LastSlash(p) = 0 THEN <<".">>
  ELSE IF LastSlash(p) = 1 THEN <<"/">>
       ELSE SubSeq(p, 1, LastSlash(p) - 1)

\* p split at its separators, into segments.
RECURSIVE Segments(_)
Segments(p) ==
  LET k == IndexOf(p, <<"/">>, 1)
  IN IF k = 0 THEN <<p>>
     ELSE <<SubSeq(p, 1, k - 1)>> \o Segments(SubSeq(p, k + 1, Len(p)))

\* path.normalize on segments: "" and "." are dropped, ".." removes the
\* segment before it (it stays when there is none to remove).
RECURSIVE NormalizeSegments(_, _)
NormalizeSegments(segs, acc) ==
  IF segs = <<>> THEN acc
  ELSE LET s == Head(segs)
       IN IF s = <<>> \/ s = <<".">> THEN NormalizeSegments(Tail(segs), acc)
          ELSE IF s = <<".", ".">> /\ acc # <<>> /\ acc[Len(acc)] # <<".", ".">>
               THEN NormalizeSegments(Tail(segs), SubSeq(acc, 1, Len(acc) - 1))
               ELSE NormalizeSegments(Tail(segs), Append(acc, s))

RECURSIVE JoinSegments(_)
JoinSegments(segs) ==
  IF segs = <<>> THEN <<>>
  ELSE IF Len(segs) = 1 THEN segs[1]
       ELSE segs[1] \o <<"/">> \o JoinSegments(Tail(segs))

\* path.join(a, b): the two joined by a separator, then normalized.
join(a, b) ==
  LET raw  == a \o <<"/">> \o b
      abs  == raw[1] = "/"
      body == JoinSegments(NormalizeSegments(Segments(raw), <<>>))
  IN IF abs THEN <<"/">> \o body
     ELSE IF body = <<>> THEN <<".">> ELSE body

(***************************************************************************)
(* base64 (Buffer.from(s, 'base64'), buf.toString('base64'))               *)
(***************************************************************************)
B64 ==
  << "A", "B", "C", "D", "E", "F", "G", "H", "I", "J", "K", "L", "M", "N", "O", "P",
     "Q", "R", "S", "T", "U", "V", "W", "X", "Y", "Z", "a", "b", "c", "d", "e", "f",
     "g", "h", "i", "j", "k", "l", "m", "n", "o", "p", "q", "r", "s", "t", "u", "v",
     "w", "x", "y", "z", "0", "1", "2", "3", "4", "5", "6", "7", "8", "9", "+", "/" >>

IsB64(c) == \E i \in 1..Len(B64) : B64[i] = c

B64Value(c) == (CHOOSE i \in 1..Len(B64) : B64[i] = c) - 1

\* The 6-bit values of a base64 text: decoding stops at the first padding
\* character, and characters outside the alphabet (line breaks) are skipped.
Sextets(s) ==
  LET pad  == IndexOf(s, <<"=">>, 1)
      body == IF pad = 0 THEN s ELSE SubSeq(s, 1, pad - 1)
      kept == SelectSeq(body, IsB64)
  IN [i \in 1..Len(kept) |-> B64Value(kept[i])]

RECURSIVE SextetsToBytes(_)
SextetsToBytes(v) ==
  IF Len(v) < 2 THEN <<>>
  ELSE LET b1 == v[1] * 4 + (v[2] \div 16)
       IN IF Len(v) = 2 THEN <<b1>>
          ELSE LET b2 == (v[2] % 16) * 16 + (v[3] \div 4)
               IN IF Len(v) = 3 THEN <<b1, b2>>
                  ELSE <<b1, b2, (v[3] % 4) * 64 + v[4]>>
                         \o SextetsToBytes(SubSeq(v, 5, Len(v)))

\* Buffer.from(s, 'base64').toString()
Base64Decode(s) ==
  LET bytes == SextetsToBytes(Sextets(s))
  IN [i \in 1..Len(bytes) |-> Chr(bytes[i])]

RECURSIVE BytesToB64(_)
BytesToB64(b) ==
  IF b = <<>> THEN <<>>
  ELSE LET c1 == B64[(b[1] \div 4) + 1]
       IN IF Len(b) = 1
          THEN <<c1, B64[((b[1] % 4) * 16) + 1], "=", "=">>
          ELSE LET c2 == B64[((b[1] % 4) * 16 + (b[2] \div 16)) + 1]
               IN IF Len(b) = 2
                  THEN <<c1, c2, B64[((b[2] % 16) * 4) + 1], "=">>
                  ELSE <<c1, c2, B64[((b[2] % 16) * 4 + (b[3] \div 64)) + 1],
                         B64[(b[3] % 64) + 1]>>
                         \o BytesToB64(SubSeq(b, 4, Len(b)))

\* Buffer.from(s).toString('base64')
Base64Encode(s) == BytesToB64([i \in 1..Len(s) |-> Ord(s[i])])

(***************************************************************************)
(* Literals of the program                                                 *)
(***************************************************************************)
\* ".njk"
T_njk == <<".", "n", "j", "k">>
\* "README.njk"
T_README_njk == <<"R", "E", "A", "D", "M", "E", ".", "n", "j", "k">>
\* "README.md"
T_README_md == <<"R", "E", "A", "D", "M", "E", ".", "m", "d">>
\* "package.njk"
T_package_njk == <<"p", "a", "c", "k", "a", "g", "e", ".", "n", "j", "k">>
\* "package.json"
T_package_json == <<"p", "a", "c", "k", "a", "g", "e", ".", "j", "s", "o", "n">>
\* "main"
T_main == <<"m", "a", "i", "n">>
\* "base64"
T_base64 == <<"b", "a", "s", "e", "6", "4">>
\* "Blog-GitHub-API-Automation-Template"
T_DefaultTemplateRepo ==
  <<"B", "l", "o", "g", "-", "G", "i", "t", "H", "u", "b", "-", "A", "P", "I", "-",
       "A", "u", "t", "o", "m", "a", "t", "i", "o", "n", "-", "T", "e", "m", "p",
       "l", "a", "t", "e">>
\* "Backend"
T_Backend == <<"B", "a", "c", "k", "e", "n", "d">>
\* "Design"
T_Design == <<"D", "e", "s", "i", "g", "n">>
\* "DevOps"
T_DevOps == <<"D", "e", "v", "O", "p", "s">>
\* "Frontend"
T_Frontend == <<"F", "r", "o", "n", "t", "e", "n", "d">>
\* "Platform"
T_Platform == <<"P", "l", "a", "t", "f", "o", "r", "m">>
\* "QA"
T_QA == <<"Q", "A">>
\* "The team responsible for backend services."
D_Backend ==
  <<"T", "h", "e", " ", "t", "e", "a", "m", " ", "r", "e", "s", "p", "o", "n", "s",
       "i", "b", "l", "e", " ", "f", "o", "r", " ", "b", "a", "c", "k", "e", "n",
       "d", " ", "s", "e", "r", "v", "i", "c", "e", "s", ".">>
\* "The team responsible for design."
D_Design ==
  <<"T", "h", "e", " ", "t", "e", "a", "m", " ", "r", "e", "s", "p", "o", "n", "s",
       "i", "b", "l", "e", " ", "f", "o", "r", " ", "d", "e", "s", "i", "g", "n", ".">>
\* "The team responsible for DevOps."
D_DevOps ==
  <<"T", "h", "e", " ", "t", "e", "a", "m", " ", "r", "e", "s", "p", "o", "n", "s",
       "i", "b", "l", "e", " ", "f", "o", "r", " ", "D", "e", "v", "O", "p", "s", ".">>
\* "The team responsible for frontend services."
D_Frontend ==
  <<"T", "h", "e", " ", "t", "e", "a", "m", " ", "r", "e", "s", "p", "o", "n", "s",
       "i", "b", "l", "e", " ", "f", "o", "r", " ", "f", "r", "o", "n", "t", "e",
       "n", "d", " ", "s", "e", "r", "v", "i", "c", "e", "s", ".">>
\* "The team responsible for the platform."
D_Platform ==
  <<"T", "h", "e", " ", "t", "e", "a", "m", " ", "r", "e", "s", "p", "o", "n", "s",
       "i", "b", "l", "e", " ", "f", "o", "r", " ", "t", "h", "e", " ", "p", "l",
       "a", "t", "f", "o", "r", "m", ".">>
\* "The team responsible for QA."
D_QA ==
  <<"T", "h", "e", " ", "t", "e", "a", "m", " ", "r", "e", "s", "p", "o", "n", "s",
       "i", "b", "l", "e", " ", "f", "o", "r", " ", "Q", "A", ".">>
\* "repoName"
V_repoName == <<"r", "e", "p", "o", "N", "a", "m", "e">>
\* "repoType"
V_repoType == <<"r", "e", "p", "o", "T", "y", "p", "e">>
\* "repoOwner"
V_repoOwner == <<"r", "e", "p", "o", "O", "w", "n", "e", "r">>
\* "repoDescription"
V_repoDescription ==
  <<"r", "e", "p", "o", "D", "e", "s", "c", "r", "i", "p", "t", "i", "o", "n">>
\* "repoTopics"
V_repoTopics == <<"r", "e", "p", "o", "T", "o", "p", "i", "c", "s">>
\* "templateRepoName"
V_templateRepoName ==
  <<"t", "e", "m", "p", "l", "a", "t", "e", "R", "e", "p", "o", "N", "a", "m", "e">>
\* "repoTeam.name"
V_repoTeam_name == <<"r", "e", "p", "o", "T", "e", "a", "m", ".", "n", "a", "m", "e">>
\* "repoTeam.description"
V_repoTeam_description ==
  <<"r", "e", "p", "o", "T", "e", "a", "m", ".", "d", "e", "s", "c", "r", "i", "p",
       "t", "i", "o", "n">>
\* "&amp;"
E_amp == <<"&", "a", "m", "p", ";">>
\* "&lt;"
E_lt == <<"&", "l", "t", ";">>
\* "&gt;"
E_gt == <<"&", "g", "t", ";">>
\* "&quot;"
E_quot == <<"&", "q", "u", "o", "t", ";">>
\* "&#39;"
E_apos == <<"&", "#", "3", "9", ";">>

(***************************************************************************)
(* Input                                                                   *)
(***************************************************************************)
RepoTeamNames == {T_Backend, T_Design, T_DevOps, T_Frontend, T_Platform, T_QA}

\* The value of RepoTeams[k] for a key that is no team name: undefined. It is a
\* record so that it compares with team records; reading its name is the
\* TypeError of reading a property of undefined.
undefinedTeam == [name |-> undefined, description |-> undefined]

\* RepoTeams[k]
RepoTeams(k) ==
  IF k = T_Backend THEN [name |-> T_Backend, description |-> D_Backend]
  ELSE IF k = T_Design THEN [name |-> T_Design, description |-> D_Design]
  ELSE IF k = T_DevOps THEN [name |-> T_DevOps, description |-> D_DevOps]
  ELSE IF k = T_Frontend THEN [name |-> T_Frontend, description |-> D_Frontend]
  ELSE IF k = T_Platform THEN [name |-> T_Platform, description |-> D_Platform]
  ELSE IF k = T_QA THEN [name |-> T_QA, description |-> D_QA]
  ELSE undefinedTeam

\* An array that is undefined (REPO_TOPICS unset): it compares with arrays of
\* texts and is none.
undefinedList == <<undefined>>

\* s.split(sep) for a one-character separator.
RECURSIVE Split(_, _)
Split(s, sep) ==
  LET k == IndexOf(s, sep, 1)
  IN IF k = 0 THEN <<s>>
     ELSE <<SubSeq(s, 1, k - 1)>> \o Split(SubSeq(s, k + 1, Len(s)), sep)

\* The value getInput returns when it throws.
NoInput ==
  [repoName |-> undefined, repoTeam |-> undefinedTeam, repoType |-> undefined,
   repoOwner |-> undefined, repoTopics |-> undefinedList,
   repoDescription |-> undefined, templateRepoName |-> undefined]

\* getInput as the first version of the job had it: only the name and the team
\* are required.
getInput_nameAndTeamOnly(e) ==
  IF ~Truthy(e.REPO_NAME) THEN [threw |-> TRUE, error |-> "REPO_NAME", value |-> NoInput]
  ELSE IF ~Truthy(e.REPO_TEAM) THEN [threw |-> TRUE, error |-> "REPO_TEAM", value |-> NoInput]
  ELSE [threw |-> FALSE, error |-> "",
        value |-> [repoName         |-> e.REPO_NAME,
                   repoTeam         |-> RepoTeams(e.REPO_TEAM),
                   repoType         |-> e.REPO_TYPE,
                   repoOwner        |-> Or(e.GITHUB_REPOSITORY_OWNER, e.REPO_OWNER),
                   repoTopics       |-> IF e.REPO_TOPICS = undefined
                                        THEN undefinedList
                                        ELSE Split(e.REPO_TOPICS, <<",">>),
                   repoDescription  |-> e.REPO_DESCRIPTION,
                   templateRepoName |-> Or(e.TEMPLATE_REPO_NAME, T_DefaultTemplateRepo)]]

\* getInput with the repo type checked against the variants of RepoType: a type
\* that is neither Bun nor Elysia is a configuration error.
getInput_knownTypesOnly(e) ==
  LET templateRepoName == Or(e.TEMPLATE_REPO_NAME, T_DefaultTemplateRepo)
      repoOwner        == Or(e.GITHUB_REPOSITORY_OWNER, e.REPO_OWNER)
  IN IF ~Truthy(e.REPO_NAME) THEN [threw |-> TRUE, error |-> "REPO_NAME", value |-> NoInput]
     ELSE IF ~Truthy(e.REPO_TEAM) THEN [threw |-> TRUE, error |-> "REPO_TEAM", value |-> NoInput]
     ELSE IF e.REPO_TYPE \notin {<<"B", "u", "n">>, <<"E", "l", "y", "s", "i", "a">>}
          THEN [threw |-> TRUE, error |-> "REPO_TYPE", value |-> NoInput]
     ELSE IF ~Truthy(repoOwner) THEN [threw |-> TRUE, error |-> "REPO_OWNER", value |-> NoInput]
     ELSE [threw |-> FALSE, error |-> "",
           value |-> [repoName         |-> e.REPO_NAME,
                      repoTeam         |-> RepoTeams(e.REPO_TEAM),
                      repoType         |-> e.REPO_TYPE,
                      repoOwner        |-> repoOwner,
                      repoTopics       |-> IF e.REPO_TOPICS = undefined
                                           THEN undefinedList
                                           ELSE Split(e.REPO_TOPICS, <<",">>),
                      repoDescription  |-> e.REPO_DESCRIPTION,
                      templateRepoName |-> templateRepoName]]

\* getInput(): the request read from the environment e, or the error thrown.
getInput(e) ==
  LET templateRepoName == Or(e.TEMPLATE_REPO_NAME, T_DefaultTemplateRepo)
      repoOwner        == Or(e.GITHUB_REPOSITORY_OWNER, e.REPO_OWNER)
  IN IF ~Truthy(e.REPO_NAME) THEN [threw |-> TRUE, error |-> "REPO_NAME", value |-> NoInput]
     ELSE IF ~Truthy(e.REPO_TEAM) THEN [threw |-> TRUE, error |-> "REPO_TEAM", value |-> NoInput]
     ELSE IF ~Truthy(e.REPO_TYPE) THEN [threw |-> TRUE, error |-> "REPO_TYPE", value |-> NoInput]
     ELSE IF ~Truthy(repoOwner) THEN [threw |-> TRUE, error |-> "REPO_OWNER", value |-> NoInput]
     ELSE [threw |-> FALSE, error |-> "",
           value |-> [repoName         |-> e.REPO_NAME,
                      repoTeam         |-> RepoTeams(e.REPO_TEAM),
                      repoType         |-> e.REPO_TYPE,
                      repoOwner        |-> repoOwner,
                      repoTopics       |-> IF e.REPO_TOPICS = undefined
                                           THEN undefinedList
                                           ELSE Split(e.REPO_TOPICS, <<",">>),
                      repoDescription  |-> e.REPO_DESCRIPTION,
                      templateRepoName |-> templateRepoName]]

(***************************************************************************)
(* nunjucks: nj.renderString(text, context), restricted to text with       *)
(* {{ name }} outputs. The default environment escapes HTML in the values  *)
(* it outputs; an undefined value outputs nothing; an output that is never *)
(* closed is a template error.                                             *)
(***************************************************************************)
RECURSIVE JoinTexts(_, _)
JoinTexts(list, sep) ==
  IF list = <<>> THEN <<>>
  ELSE IF Len(list) = 1 THEN list[1]
       ELSE list[1] \o sep \o JoinTexts(Tail(list), sep)

RECURSIVE Trim(_)
Trim(s) ==
  IF s = <<>> THEN s
  ELSE IF Head(s) = " " THEN Trim(Tail(s))
       ELSE IF s[Len(s)] = " " THEN Trim(SubSeq(s, 1, Len(s) - 1))
            ELSE s

\* The value of a name in the render context (the UserInput), as text.
ContextLookup(name, input) ==
  LET v == IF name = V_repoName THEN input.repoName
           ELSE IF name = V_repoType THEN input.repoType
           ELSE IF name = V_repoOwner THEN input.repoOwner
           ELSE IF name = V_repoDescription THEN input.repoDescription
           ELSE IF name = V_templateRepoName THEN input.templateRepoName
           ELSE IF name = V_repoTeam_name THEN input.repoTeam.name
           ELSE IF name = V_repoTeam_description THEN input.repoTeam.description
           ELSE IF name = V_repoTopics
                THEN IF input.repoTopics = undefinedList THEN undefined
                     ELSE JoinTexts(input.repoTopics, <<",">>)
                ELSE undefined
  IN IF v = undefined THEN <<>> ELSE v

EscapeChar(c) ==
  IF c = "&" THEN E_amp
  ELSE IF c = "<" THEN E_lt
  ELSE IF c = ">" THEN E_gt
  ELSE IF c = "\"" THEN E_quot
  ELSE IF c = "'" THEN E_apos
  ELSE <<c>>

RECURSIVE Escape(_)
Escape(s) == IF s = <<>> THEN <<>> ELSE EscapeChar(Head(s)) \o Escape(Tail(s))

RECURSIVE renderString(_, _)
renderString(t, input) ==
  IF t = <<>> THEN [ok |-> TRUE, out |-> <<>>]
  ELSE IF startsWith(t, <<"{", "{">>)
       THEN LET close == IndexOf(t, <<"}", "}">>, 3)
            IN IF close = 0 THEN [ok |-> FALSE, out |-> <<>>]
               ELSE LET name == Trim(SubSeq(t, 3, close - 1))
                        rest == renderString(SubSeq(t, close + 2, Len(t)), input)
                    IN [ok  |-> rest.ok,
                        out |-> Escape(ContextLookup(name, input)) \o rest.out]
       ELSE LET rest == renderString(Tail(t), input)
            IN [ok |-> rest.ok, out |-> <<Head(t)>> \o rest.out]

(***************************************************************************)
(* Renderer                                                                *)
(***************************************************************************)
\* The rename table without its second row.
getNewFilename_onlyReadme(filename) ==
  IF filename = T_README_njk THEN T_README_md ELSE filename

\* getNewFilename(filename)
getNewFilename(filename) ==
  IF filename = T_README_njk THEN T_README_md
  ELSE IF filename = T_package_njk THEN T_package_json
       ELSE filename

\* The three results of a call of renderFileData: undefined, a rendered file,
\* or the exception of the template engine.
RenderUndefined == [kind |-> "undefined", path |-> <<>>, content |-> <<>>]

\* The template engine's exception swallowed by the renderer: the file is
\* reported as having nothing to render.
RenderThrew_swallowed == RenderUndefined

RenderThrew == [kind |-> "throw", path |-> <<>>, content |-> <<>>]

RenderedTemplateFile(p, c) == [kind |-> "file", path |-> p, content |-> c]

\* Rendering tied to the rename table: a template whose name is not in the
\* table is copied as it is.
RenderContent_rawUnknown(file, input) ==
  LET filename    == basename(file.path)
      newFilename == getNewFilename(filename)
      rendered    == renderString(Base64Decode(file.content), input)
  IN IF endsWith(file.path, T_njk) /\ newFilename # filename
     THEN IF rendered.ok
          THEN RenderedTemplateFile(join(dirname(file.path), newFilename), rendered.out)
          ELSE RenderThrew
     ELSE RenderedTemplateFile(file.path, Base64Decode(file.content))

\* Rendering without the suffix test: every file's text goes through the
\* template engine.
RenderContent_alwaysRender(file, input) ==
  LET filename == basename(file.path)
      rendered == renderString(Base64Decode(file.content), input)
  IN IF ~rendered.ok THEN RenderThrew
     ELSE IF endsWith(file.path, T_njk)
          THEN RenderedTemplateFile(join(dirname(file.path), getNewFilename(filename)),
                                    rendered.out)
          ELSE RenderedTemplateFile(file.path, rendered.out)

\* A rendered template placed at the root of the new repository, under its new
\* name alone.
RenderContent_rootPath(file, input) ==
  LET filename == basename(file.path)
  IN IF endsWith(file.path, T_njk)
     THEN LET renderedContent == renderString(Base64Decode(file.content), input)
          IN IF renderedContent.ok
             THEN RenderedTemplateFile(getNewFilename(filename), renderedContent.out)
             ELSE RenderThrew
     ELSE RenderedTemplateFile(file.path, Base64Decode(file.content))

\* renderFileData for a file that has content (lines 180-208).
RenderContent(file, input) ==
  LET filename == basename(file.path)
      fileDir  == dirname(file.path)
  IN IF endsWith(file.path, T_njk)
     THEN LET newFilename     == getNewFilename(filename)
              fileContent     == Base64Decode(file.content)
              renderedContent == renderString(fileContent, input)
          IN IF renderedContent.ok
             THEN RenderedTemplateFile(join(fileDir, newFilename), renderedContent.out)
             ELSE RenderThrew
     ELSE RenderedTemplateFile(file.path, Base64Decode(file.content))

\* The content test left out: the content of a file that has none is decoded,
\* which is a TypeError.
renderFileData_noContentTest(file, input) ==
  IF file.content = undefined THEN RenderThrew ELSE RenderContent(file, input)

\* The content test as a test for undefined: an empty payload is rendered, to
\* an empty file.
renderFileData_definedTest(file, input) ==
  IF file.content # undefined THEN RenderContent(file, input) ELSE RenderUndefined

\* renderFileData(file, input)
renderFileData(file, input) ==
  IF Truthy(file.content) THEN RenderContent(file, input) ELSE RenderUndefined

(***************************************************************************)
(* The environment of a run: the process environment and the template      *)
(* repository on the hosting platform                                      *)
(***************************************************************************)
\* "foo"
X_foo == <<"f", "o", "o">>
\* "acme"
X_acme == <<"a", "c", "m", "e">>
\* "Bun"
X_Bun == <<"B", "u", "n">>
\* "Elysia"
X_Elysia == <<"E", "l", "y", "s", "i", "a">>
\* "Go"
X_Go == <<"G", "o">>
\* "Ops"
X_Ops == <<"O", "p", "s">>
\* "ghp"
X_token == <<"g", "h", "p">>
\* "api,bun"
X_topics_ab == <<"a", "p", "i", ",", "b", "u", "n">>
\* ",api"
X_topics_comma == <<",", "a", "p", "i">>
\* "R&D"
X_desc == <<"R", "&", "D">>
\* "tpl"
X_tpl == <<"t", "p", "l">>


\* A complete environment: the job's workflow sets the token, the name, team
\* and type inputs, and the runner sets GITHUB_REPOSITORY_OWNER.
BaseEnv ==
  [GITHUB_TOKEN |-> X_token, GH_PAT |-> undefined,
   REPO_NAME |-> X_foo, REPO_TEAM |-> T_Platform, REPO_TYPE |-> X_Bun,
   GITHUB_REPOSITORY_OWNER |-> X_acme, REPO_OWNER |-> undefined,
   REPO_TOPICS |-> undefined, REPO_DESCRIPTION |-> undefined,
   TEMPLATE_REPO_NAME |-> undefined]

\* The environments a run is started in: the complete one, and the ones that
\* differ from it in one input.
Envs ==
  { BaseEnv,
    [BaseEnv EXCEPT !.GITHUB_TOKEN = undefined],
    [BaseEnv EXCEPT !.GITHUB_TOKEN = undefined, !.GH_PAT = X_token],
    [BaseEnv EXCEPT !.REPO_NAME = undefined],
    [BaseEnv EXCEPT !.REPO_NAME = <<>>],
    [BaseEnv EXCEPT !.REPO_TEAM = undefined],
    [BaseEnv EXCEPT !.REPO_TEAM = X_Ops],
    [BaseEnv EXCEPT !.REPO_TEAM = T_QA],
    [BaseEnv EXCEPT !.REPO_TYPE = undefined],
    [BaseEnv EXCEPT !.REPO_TYPE = <<>>],
    [BaseEnv EXCEPT !.REPO_TYPE = X_Elysia],
    [BaseEnv EXCEPT !.REPO_TYPE = X_Go],
    [BaseEnv EXCEPT !.GITHUB_REPOSITORY_OWNER = undefined],
    [BaseEnv EXCEPT !.GITHUB_REPOSITORY_OWNER = <<>>, !.REPO_OWNER = X_acme],
    [BaseEnv EXCEPT !.REPO_TOPICS = <<>>],
    [BaseEnv EXCEPT !.REPO_TOPICS = X_topics_ab],
    [BaseEnv EXCEPT !.REPO_TOPICS = X_topics_comma],
    [BaseEnv EXCEPT !.REPO_DESCRIPTION = X_desc, !.TEMPLATE_REPO_NAME = X_tpl] }

\* "bun"
P_bun == <<"b", "u", "n">>
\* "bun/LICENSE"
P_bun_LICENSE == <<"b", "u", "n", "/", "L", "I", "C", "E", "N", "S", "E">>
\* "bun/README.njk"
P_bun_README_njk ==
  <<"b", "u", "n", "/", "R", "E", "A", "D", "M", "E", ".", "n", "j", "k">>
\* "bun/package.njk"
P_bun_package_njk ==
  <<"b", "u", "n", "/", "p", "a", "c", "k", "a", "g", "e", ".", "n", "j", "k">>
\* "bun/src"
P_bun_src == <<"b", "u", "n", "/", "s", "r", "c">>
\* "bun/src/index.ts"
P_bun_src_index_ts ==
  <<"b", "u", "n", "/", "s", "r", "c", "/", "i", "n", "d", "e", "x", ".", "t", "s">>
\* "bun/other.njk"
P_bun_other_njk == <<"b", "u", "n", "/", "o", "t", "h", "e", "r", ".", "n", "j", "k">>
\* "bun/bad.njk"
P_bun_bad_njk == <<"b", "u", "n", "/", "b", "a", "d", ".", "n", "j", "k">>
\* "bun/.gitkeep"
P_bun_empty == <<"b", "u", "n", "/", ".", "g", "i", "t", "k", "e", "e", "p">>
\* "bun/link"
P_bun_link == <<"b", "u", "n", "/", "l", "i", "n", "k">>
\* "bun/vendor"
P_bun_vendor == <<"b", "u", "n", "/", "v", "e", "n", "d", "o", "r">>
\* "bunny/x.njk"
P_bunny_x == <<"b", "u", "n", "n", "y", "/", "x", ".", "n", "j", "k">>
\* "elysia/README.njk"
P_elysia_README_njk ==
  <<"e", "l", "y", "s", "i", "a", "/", "R", "E", "A", "D", "M", "E", ".", "n", "j",
       "k">>
\* "MIT"
C_LICENSE == <<"M", "I", "T">>
\* "# {{ repoName }}"
C_README ==
  <<"#", " ", "{", "{", " ", "r", "e", "p", "o", "N", "a", "m", "e", " ", "}", "}">>
\* "{"name":"{{repoName}}"}"
C_package ==
  <<"{", "\"", "n", "a", "m", "e", "\"", ":", "\"", "{", "{", "r", "e", "p", "o",
       "N", "a", "m", "e", "}", "}", "\"", "}">>
\* "// {{repoName}}"
C_index_ts ==
  <<"/", "/", " ", "{", "{", "r", "e", "p", "o", "N", "a", "m", "e", "}", "}">>
\* "{{repoTeam.name}}"
C_other ==
  <<"{", "{", "r", "e", "p", "o", "T", "e", "a", "m", ".", "n", "a", "m", "e", "}",
       "}">>
\* "{{repoName"
C_bad == <<"{", "{", "r", "e", "p", "o", "N", "a", "m", "e">>
\* "{{repoType}}"
C_elysia == <<"{", "{", "r", "e", "p", "o", "T", "y", "p", "e", "}", "}">>


\* An entry of the tree listing (GET /repos/{owner}/{repo}/git/trees/{sha}):
\* its path, mode and type, and, for the content request of its path, the text
\* the platform holds (undefined when the response carries no content).
TreeNode(p, m, t, x) ==
  [path |-> p, mode |-> m, type |-> t, text |-> x, encoding |-> T_base64]

\* "utf-8"
X_utf8 == <<"u", "t", "f", "-", "8">>
\* "bun/NOTES"
P_bun_NOTES == <<"b", "u", "n", "/", "N", "O", "T", "E", "S">>
\* "TUlU"
C_NOTES == <<"T", "U", "l", "U">>

\* "go/main.go"
P_go_main_go == <<"g", "o", "/", "m", "a", "i", "n", ".", "g", "o">>

\* "bun/README.md"
P_bun_README_md == <<"b", "u", "n", "/", "R", "E", "A", "D", "M", "E", ".", "m", "d">>

\* An entry whose content response declares the encoding e: the platform sends
\* the text as it is when e is utf-8.
TreeNodeEncoded(p, m, t, x, e) ==
  [path |-> p, mode |-> m, type |-> t, text |-> x, encoding |-> e]

\* The entries a template repository's listing is made of: regular files,
\* directories (type tree), a submodule (type commit), a symbolic link (a blob
\* of mode 120000, whose content response has no content when its target is
\* not a file of the repository), an empty file, an entry without a path, and
\* files of a sibling directory and of the other variant, a file whose
\* content response declares utf-8, and a README.md next to README.njk.
Master ==
  << TreeNode(P_bun, "040000", "tree", undefined),
     TreeNode(P_bun_README_njk, "100644", "blob", C_README),
     TreeNode(P_bun_LICENSE, "100644", "blob", C_LICENSE),
     TreeNode(P_bun_empty, "100644", "blob", <<>>),
     TreeNode(P_bun_bad_njk, "100644", "blob", C_bad),
     TreeNode(P_bun_link, "120000", "blob", undefined),
     TreeNode(P_bun_other_njk, "100644", "blob", C_other),
     TreeNode(P_bun_vendor, "160000", "commit", undefined),
     TreeNode(P_bunny_x, "100644", "blob", C_other),
     TreeNode(P_elysia_README_njk, "100644", "blob", C_elysia),
     TreeNode(undefined, "100644", "blob", C_LICENSE),
     TreeNodeEncoded(P_bun_NOTES, "100644", "blob", C_NOTES, X_utf8),
     TreeNode(P_bun_README_md, "100644", "blob", C_LICENSE),
     TreeNode(P_go_main_go, "100644", "blob", C_LICENSE) >>

\* The sample template: README.njk, package.njk, src/index.ts and LICENSE under
\* the variant directory bun.
SampleTree ==
  << TreeNode(P_bun_README_njk, "100644", "blob", C_README),
     TreeNode(P_bun_package_njk, "100644", "blob", C_package),
     TreeNode(P_bun_src_index_ts, "100644", "blob", C_index_ts),
     TreeNode(P_bun_LICENSE, "100644", "blob", C_LICENSE) >>

\* The longest listing drawn from Master.
MaxTreeLen == 2

\* The i-th smallest element of a set of numbers.
Nth(S, i) == CHOOSE x \in S : Cardinality({y \in S : y < x}) = i - 1

\* The listings: the sample, and the entries of Master at up to MaxTreeLen
\* positions, in Master's order.
Trees ==
  {SampleTree} \cup
  { [i \in 1..Cardinality(S) |-> Master[Nth(S, i)]] :
      S \in {T \in SUBSET (1..Len(Master)) : Cardinality(T) <= MaxTreeLen} }

\* The data of a successful content response for a tree entry (GetContentsData):
\* the platform sends a file's bytes in base64, ending with a line break, and
\* says so in the encoding field; under another declared encoding the text is
\* sent as it is.
ContentResponse(n) ==
  [path     |-> n.path,
   encoding |-> n.encoding,
   content  |-> IF n.text = undefined THEN undefined
                ELSE IF n.text = <<>> THEN <<>>
                     ELSE IF n.encoding = T_base64
                          THEN Base64Encode(n.text) \o <<"\n">>
                          ELSE n.text]

(***************************************************************************)
(* The run                                                                 *)
(***************************************************************************)
VARIABLES
  env,                    \* process.env
  tree,                   \* the template repository's tree listing
  pc,                     \* where the run is: at its start, awaiting a call, ended
  userInput,              \* main's userInput
  calls,                  \* the network calls issued so far, each with its outcome
  treeIdx,                \* getTemplateFiles: position of treeNode in data.tree
  renderedTemplateFiles,  \* getTemplateFiles: the files rendered so far
  templateFiles,          \* main: the value getTemplateFiles returned
  fileIdx,                \* main: position of file in templateFiles
  successfulAdditions,    \* main: the paths written with status 201
  log,                    \* the errors logged with console.error
  exitCode,               \* the process's exit code, -1 while it runs
  renders,                \* the calls of renderFileData so far: entry, file, result
  archive,                \* the archive task: a repository's metadata and the decision
  defaultBranch           \* the template repository's default branch

vars ==
  <<env, tree, pc, userInput, calls, treeIdx, renderedTemplateFiles, templateFiles,
    fileIdx, successfulAdditions, log, exitCode, renders, archive, defaultBranch>>

\* The archive task's state in a run of the new-repository task, which never
\* touches it.
NoArchive == [marker |-> FALSE, created |-> 0, committed |-> 0, decision |-> "none"]

\* "develop"
X_develop == <<"d", "e", "v", "e", "l", "o", "p">>

\* The names the template repository's default branch may have. A content
\* request without a ref reads the default branch; the tree request names its
\* branch itself.
DefaultBranches == {T_main, X_develop}

\* A network call as it is issued.
Call(op, p, c, names) ==
  [op |-> op, path |-> p, content |-> c, names |-> names, outcome |-> "pending"]

\* The calls, the outstanding one (the last) having returned with outcome o.
Returned(cs, o) == [cs EXCEPT ![Len(cs)].outcome = o]

\* The rendered file put at the front of the list instead of its end.
push_unshift(list, item) == <<item>> \o list

\* The rendered file put on the list twice.
push_twice(list, item) == list \o <<item, item>>

\* renderedTemplateFiles.push(renderedTemplateFile) (line 262).
push(list, item) == Append(list, item)

\* The filter with the directory separator left out of the prefix.
Qualifies_noSeparator(treeNode, input) ==
  /\ treeNode.type = "blob"
  /\ Truthy(treeNode.path)
  /\ startsWith(treeNode.path, toLowerCase(input.repoType))

\* The condition of the for-loop's if (lines 241-245): the entry is a blob, has
\* a path, and the path is in the directory of the repo type.
Qualifies(treeNode, input) ==
  /\ treeNode.type = "blob"
  /\ Truthy(treeNode.path)
  /\ startsWith(treeNode.path, toLowerCase(input.repoType) \o <<"/">>)

\* The position of the first qualifying entry at or after from, 0 when none.
NextQualifying(from) ==
  LET hits == {i \in from..Len(tree) : Qualifies(tree[i], userInput)}
  IN IF hits = {} THEN 0 ELSE CHOOSE i \in hits : \A j \in hits : i <= j

\* The tree listing's status check left out: any response that is not an
\* exception is taken as the listing.
TreeOk_unchecked(o) == TRUE

\* The status check of the tree listing (line 234).
TreeOk(o) == o = "200"

\* The status check of a content response left out: any response that is not an
\* exception is rendered.
ContentOk_unchecked(o) == TRUE

\* The status check of a content response (line 256).
ContentOk(o) == o = "200"

\* The catch block returning what was rendered before the failure.
CatchResult_partial(rendered) == rendered

\* What getTemplateFiles returns from its catch block (line 271), having
\* rendered the files `rendered` so far.
CatchResult(rendered) == <<>>

\* A catch block that is empty: the error is dropped without a trace.
MainCatch_silent ==
  /\ log' = log
  /\ pc' = "done"
  /\ exitCode' = 0

\* A catch block after which the process does not end: it waits on something
\* that never comes.
MainCatch_waits ==
  /\ log' = Append(log, "[ERROR][main]")
  /\ pc' = "await exit"
  /\ exitCode' = exitCode

\* main's catch block (lines 354-357): the error is logged; nothing sets an exit
\* code or throws again, so the process ends with code 0.
MainCatch ==
  /\ log' = Append(log, "[ERROR][main]")
  /\ pc' = "done"
  /\ exitCode' = 0

\* The file writes issued all at once, none awaited before the next.
WriteFiles_fanOut(cs, files, lg) ==
  /\ templateFiles' = files
  /\ successfulAdditions' = <<>>
  /\ log' = lg
  /\ IF files = <<>>
     THEN /\ calls' = cs
          /\ fileIdx' = 0
          /\ pc' = "done"
          /\ exitCode' = 0
     ELSE /\ calls' = cs \o [i \in 1..Len(files) |->
                               Call("createOrUpdateFileContents", files[i].path,
                                    Base64Encode(files[i].content), <<>>)]
          /\ fileIdx' = 1
          /\ pc' = "await createOrUpdateFileContents"
          /\ exitCode' = exitCode

\* main from line 330 on, getTemplateFiles having returned files: the first
\* file's write is issued, or main ends.
WriteFiles(cs, files, lg) ==
  /\ templateFiles' = files
  /\ successfulAdditions' = <<>>
  /\ log' = lg
  /\ IF files = <<>>
     THEN /\ calls' = cs
          /\ fileIdx' = 0
          /\ pc' = "done"
          /\ exitCode' = 0
     ELSE /\ calls' = Append(cs, Call("createOrUpdateFileContents", files[1].path,
                                      Base64Encode(files[1].content), <<>>))
          /\ fileIdx' = 1
          /\ pc' = "await createOrUpdateFileContents"
          /\ exitCode' = exitCode

\* A catch block that tries again: the tree listing is requested anew.
FetchCatch_retry(cs) ==
  /\ calls' = Append(cs, Call("getTree", T_main, <<>>, <<>>))
  /\ pc' = "await getTree"
  /\ log' = Append(log, "[ERROR][getTemplateFiles]")
  /\ UNCHANGED <<templateFiles, fileIdx, successfulAdditions, exitCode>>

\* getTemplateFiles' catch block (lines 267-272), then main.
FetchCatch(cs) ==
  WriteFiles(cs, CatchResult(renderedTemplateFiles),
             Append(log, "[ERROR][getTemplateFiles]"))

\* getTemplateFiles' for-loop from position from on, with the files rendered so
\* far: the content of the next qualifying entry is requested, or the loop ends
\* and the function returns the rendered files (line 266).
FetchLoop(cs, from, rendered) ==
  LET j == NextQualifying(from)
  IN /\ renderedTemplateFiles' = rendered
     /\ IF j = 0
        THEN /\ treeIdx' = Len(tree) + 1
             /\ WriteFiles(cs, rendered, log)
        ELSE /\ treeIdx' = j
             /\ calls' = Append(cs, Call("getContent", tree[j].path, <<>>, <<>>))
             /\ pc' = "await getContent"
             /\ UNCHANGED <<templateFiles, fileIdx, successfulAdditions, log, exitCode>>

\* getTemplateFiles is entered (line 330): the tree listing is requested.
RequestTree(cs) ==
  /\ calls' = Append(cs, Call("getTree", T_main, <<>>, <<>>))
  /\ pc' = "await getTree"

Init ==
  /\ env \in Envs
  /\ tree \in Trees
  /\ defaultBranch \in DefaultBranches
  /\ pc = "start"
  /\ userInput = NoInput
  /\ calls = <<>>
  /\ treeIdx = 0
  /\ renderedTemplateFiles = <<>>
  /\ templateFiles = <<>>
  /\ fileIdx = 0
  /\ successfulAdditions = <<>>
  /\ log = <<>>
  /\ exitCode = -1
  /\ renders = <<>>
  /\ archive = NoArchive

\* main starting with the template: the tree listing is requested before the
\* repository is created, and the creation is left out.
Start_fetchFirst ==
  /\ pc = "start"
  /\ IF ~Truthy(Or(env.GITHUB_TOKEN, env.GH_PAT))
     THEN /\ pc' = "crashed"
          /\ exitCode' = 1
          /\ UNCHANGED <<userInput, calls, log>>
     ELSE LET r == getInput(env)
          IN IF r.threw
             THEN MainCatch /\ UNCHANGED <<userInput, calls>>
             ELSE /\ userInput' = r.value
                  /\ IF r.value.repoTeam = undefinedTeam
                     THEN MainCatch /\ UNCHANGED calls
                     ELSE /\ calls' = Append(calls, Call("getTree", T_main, <<>>, <<>>))
                          /\ pc' = "await getTree"
                          /\ UNCHANGED <<log, exitCode>>
  /\ UNCHANGED <<archive, defaultBranch, env, tree, treeIdx, renderedTemplateFiles,
                 templateFiles, fileIdx, successfulAdditions, renders>>

\* The module is loaded and main runs to its first await (lines 74-306): without
\* a token the module throws outside any try; getInput or the debug message
\* (line 283 reads repoTeam.name) may throw into main's catch; otherwise the
\* repository creation is requested.
Start ==
  /\ pc = "start"
  /\ IF ~Truthy(Or(env.GITHUB_TOKEN, env.GH_PAT))
     THEN /\ pc' = "crashed"
          /\ exitCode' = 1
          /\ UNCHANGED <<userInput, calls, log>>
     ELSE LET r == getInput(env)
          IN IF r.threw
             THEN MainCatch /\ UNCHANGED <<userInput, calls>>
             ELSE /\ userInput' = r.value
                  /\ IF r.value.repoTeam = undefinedTeam
                     THEN MainCatch /\ UNCHANGED calls
                     ELSE /\ calls' = Append(calls, Call("createInOrg", r.value.repoName,
                                                         <<>>, <<>>))
                          /\ pc' = "await createInOrg"
                          /\ UNCHANGED <<log, exitCode>>
  /\ UNCHANGED <<archive, defaultBranch, env, tree, treeIdx, renderedTemplateFiles, templateFiles, fileIdx,
                 successfulAdditions, renders>>

\* The topics condition looking at every element: a list with a topic anywhere
\* in it counts.
HasTopics_anyElement(input) ==
  /\ input.repoTopics # undefinedList
  /\ \E i \in 1..Len(input.repoTopics) : input.repoTopics[i] # <<>>

\* The topics condition of line 318.
HasTopics(input) == input.repoTopics # undefinedList /\ input.repoTopics[1] # <<>>

\* createInOrg returns (lines 293-330): a failure goes to main's catch; otherwise
\* the topics are replaced if there are any, or the template files are fetched.
CreateInOrgReturn ==
  /\ pc = "await createInOrg"
  /\ \E o \in {"201", "throw"} :
       IF o = "throw"
       THEN /\ calls' = Returned(calls, o)
            /\ MainCatch
       ELSE /\ IF HasTopics(userInput)
               THEN /\ calls' = Append(Returned(calls, o),
                                       Call("replaceAllTopics", userInput.repoName, <<>>,
                                            userInput.repoTopics))
                    /\ pc' = "await replaceAllTopics"
               ELSE RequestTree(Returned(calls, o))
            /\ UNCHANGED <<log, exitCode>>
  /\ UNCHANGED <<archive, defaultBranch, env, tree, userInput, treeIdx, renderedTemplateFiles, templateFiles,
                 fileIdx, successfulAdditions, renders>>

\* replaceAllTopics returns (lines 320-330).
ReplaceAllTopicsReturn ==
  /\ pc = "await replaceAllTopics"
  /\ \E o \in {"200", "throw"} :
       IF o = "throw"
       THEN /\ calls' = Returned(calls, o)
            /\ MainCatch
       ELSE /\ RequestTree(Returned(calls, o))
            /\ UNCHANGED <<log, exitCode>>
  /\ UNCHANGED <<archive, defaultBranch, env, tree, userInput, treeIdx, renderedTemplateFiles, templateFiles,
                 fileIdx, successfulAdditions, renders>>

\* The tree listing returns (lines 225-250): with status 200 the loop starts;
\* with another status, or when the request throws, the catch block runs.
GetTreeReturn ==
  /\ pc = "await getTree"
  /\ \E o \in {"200", "202", "throw"} :
       IF o # "throw" /\ TreeOk(o)
       THEN FetchLoop(Returned(calls, o), 1, <<>>)
       ELSE /\ FetchCatch(Returned(calls, o))
            /\ UNCHANGED <<treeIdx, renderedTemplateFiles>>
  /\ UNCHANGED <<archive, defaultBranch, env, tree, userInput, renders>>

\* A content request returns (lines 246-263): with status 200 the file is
\* rendered and, unless the result is undefined, appended, and the loop goes
\* on; another status, a request that throws and a render that throws all end
\* in the catch block.
GetContentReturn ==
  /\ pc = "await getContent"
  /\ \E o \in {"200", "202", "throw"} :
       IF o # "throw" /\ ContentOk(o)
       THEN LET file == ContentResponse(tree[treeIdx])
                renderedTemplateFile == renderFileData(file, userInput)
            IN /\ renders' = Append(renders, [entry  |-> treeIdx,
                                              file   |-> file,
                                              result |-> renderedTemplateFile])
               /\ IF renderedTemplateFile.kind = "throw"
                  THEN /\ FetchCatch(Returned(calls, o))
                       /\ UNCHANGED <<treeIdx, renderedTemplateFiles>>
                  ELSE FetchLoop(Returned(calls, o), treeIdx + 1,
                                 IF renderedTemplateFile.kind = "file"
                                 THEN push(renderedTemplateFiles,
                                           [path    |-> renderedTemplateFile.path,
                                            content |-> renderedTemplateFile.content])
                                 ELSE renderedTemplateFiles)
       ELSE /\ FetchCatch(Returned(calls, o))
            /\ UNCHANGED <<treeIdx, renderedTemplateFiles, renders>>
  /\ UNCHANGED <<archive, defaultBranch, env, tree, userInput>>

\* A file write returns (lines 337-353): a failure goes to main's catch;
\* otherwise the path is counted if the status is 201, and the next file is
\* written or main ends.
CreateOrUpdateFileContentsReturn ==
  /\ pc = "await createOrUpdateFileContents"
  /\ \E o \in {"201", "200", "throw"} :
       IF o = "throw"
       THEN /\ calls' = Returned(calls, o)
            /\ MainCatch
            /\ UNCHANGED <<fileIdx, successfulAdditions>>
       ELSE /\ successfulAdditions' =
                 IF o = "201" THEN Append(successfulAdditions, templateFiles[fileIdx].path)
                 ELSE successfulAdditions
            /\ log' = log
            /\ IF fileIdx < Len(templateFiles)
               THEN /\ calls' = Append(Returned(calls, o),
                                       Call("createOrUpdateFileContents",
                                            templateFiles[fileIdx + 1].path,
                                            Base64Encode(templateFiles[fileIdx + 1].content),
                                            <<>>))
                    /\ fileIdx' = fileIdx + 1
                    /\ UNCHANGED <<pc, exitCode>>
               ELSE /\ calls' = Returned(calls, o)
                    /\ fileIdx' = fileIdx + 1
                    /\ pc' = "done"
                    /\ exitCode' = 0
  /\ UNCHANGED <<archive, defaultBranch, env, tree, userInput, treeIdx, renderedTemplateFiles, templateFiles,
                 renders>>

Next ==
  \/ Start
  \/ CreateInOrgReturn
  \/ ReplaceAllTopicsReturn
  \/ GetTreeReturn
  \/ GetContentReturn
  \/ CreateOrUpdateFileContentsReturn

Spec == Init /\ [][Next]_vars

\* The run when every network call eventually returns, with a response or a
\* failure, and the process is not stopped from outside: a step that can be
\* taken is eventually taken.
FairSpec == Spec /\ WF_vars(Next)

(***************************************************************************)
(* The renderer on its own: renderFileData applied once to a content       *)
(* response and a request                                                  *)
(***************************************************************************)
\* "other.njk"
N_other_njk == <<"o", "t", "h", "e", "r", ".", "n", "j", "k">>
\* "readme.njk"
N_readme_njk == <<"r", "e", "a", "d", "m", "e", ".", "n", "j", "k">>
\* "README.njk.bak"
N_README_njk_bak ==
  <<"R", "E", "A", "D", "M", "E", ".", "n", "j", "k", ".", "b", "a", "k">>
\* "xREADME.njk"
N_xREADME_njk == <<"x", "R", "E", "A", "D", "M", "E", ".", "n", "j", "k">>
\* "index.ts"
N_index_ts == <<"i", "n", "d", "e", "x", ".", "t", "s">>
\* "LICENSE"
N_LICENSE == <<"L", "I", "C", "E", "N", "S", "E">>
\* "src"
N_src == <<"s", "r", "c">>


\* The deepest directory a rendered file is in.
MaxDepth == 2

\* The directories: the repository's root (no segment) and the directories
\* made of up to MaxDepth segments.
RenderDirs == UNION {[1..n -> {P_bun, N_src}] : n \in 0..MaxDepth}

RenderNames ==
  {T_README_njk, T_package_njk, N_other_njk, N_readme_njk, N_README_njk_bak,
   N_xREADME_njk, N_index_ts, N_LICENSE}

RenderTexts == {C_README, C_LICENSE, C_other, C_bad, <<>>, undefined}

\* The entries whose content response is rendered.
RenderNodes ==
  { TreeNode(JoinSegments(d \o <<n>>), "100644", "blob", x) :
      d \in RenderDirs, n \in RenderNames, x \in RenderTexts }

RenderEnvs ==
  { BaseEnv,
    [BaseEnv EXCEPT !.REPO_TEAM = T_QA, !.REPO_TOPICS = X_topics_ab],
    [BaseEnv EXCEPT !.REPO_DESCRIPTION = X_desc, !.REPO_TYPE = X_Elysia] }

RenderInit ==
  /\ defaultBranch = T_main
  /\ env \in RenderEnvs
  /\ tree \in {<<n>> : n \in RenderNodes}
  /\ pc = "render"
  /\ userInput = getInput(env).value
  /\ calls = <<>>
  /\ treeIdx = 1
  /\ renderedTemplateFiles = <<>>
  /\ templateFiles = <<>>
  /\ fileIdx = 0
  /\ successfulAdditions = <<>>
  /\ log = <<>>
  /\ exitCode = -1
  /\ renders = <<>>
  /\ archive = NoArchive

\* A renderer that puts its result on the list of rendered files itself.
RenderCall_appends ==
  /\ pc = "render"
  /\ LET file   == ContentResponse(tree[treeIdx])
         result == renderFileData(file, userInput)
     IN /\ renders' = Append(renders, [entry |-> treeIdx, file |-> file, result |-> result])
        /\ renderedTemplateFiles' =
             IF result.kind = "file"
             THEN Append(renderedTemplateFiles, [path |-> result.path, content |-> result.content])
             ELSE renderedTemplateFiles
  /\ pc' = "rendered"
  /\ UNCHANGED <<archive, defaultBranch, env, tree, userInput, calls, treeIdx, templateFiles, fileIdx,
                 successfulAdditions, log, exitCode>>

\* One call of renderFileData (line 259), on the content response of the entry.
RenderCall ==
  /\ pc = "render"
  /\ LET file == ContentResponse(tree[treeIdx])
     IN renders' = Append(renders, [entry  |-> treeIdx,
                                    file   |-> file,
                                    result |-> renderFileData(file, userInput)])
  /\ pc' = "rendered"
  /\ UNCHANGED <<archive, defaultBranch, env, tree, userInput, calls, treeIdx, renderedTemplateFiles,
                 templateFiles, fileIdx, successfulAdditions, log, exitCode>>

RenderNext == RenderCall

RenderSpec == RenderInit /\ [][RenderNext]_vars

(***************************************************************************)
(* The archive task: the monthly job that decides, for a repository,       *)
(* whether it is archived. Ages are in months.                             *)
(***************************************************************************)
\* A repository is archived only when more than this many months have passed
\* since its creation.
MonthsSinceCreation == 6

\* A repository is archived only when more than this many months have passed
\* since its last commit.
MonthsSinceCommit == 3

\* The oldest repository and last commit, in months.
MaxMonths == 8

\* The criteria with their limits included: a repository created exactly 6
\* months ago, last committed exactly 3 months ago, is taken as stale.
Eligible_inclusive(r) ==
  /\ ~r.marker
  /\ r.created >= MonthsSinceCreation
  /\ r.committed >= MonthsSinceCommit

\* The archival criteria: no .NOARCHIVE file in the root, more than 6 months
\* since creation, more than 3 months since the last commit.
Eligible(r) ==
  /\ ~r.marker
  /\ r.created > MonthsSinceCreation
  /\ r.committed > MonthsSinceCommit

ArchiveInit ==
  /\ archive \in [marker : BOOLEAN, created : 0..MaxMonths, committed : 0..MaxMonths,
                  decision : {"pending"}]
  /\ defaultBranch = T_main
  /\ env = BaseEnv
  /\ tree = <<>>
  /\ pc = "archive"
  /\ userInput = NoInput
  /\ calls = <<>>
  /\ treeIdx = 0
  /\ renderedTemplateFiles = <<>>
  /\ templateFiles = <<>>
  /\ fileIdx = 0
  /\ successfulAdditions = <<>>
  /\ log = <<>>
  /\ exitCode = -1
  /\ renders = <<>>

\* The criteria are applied to the repository.
ArchiveCheck ==
  /\ pc = "archive"
  /\ archive' = [archive EXCEPT !.decision = IF Eligible(archive) THEN "archive" ELSE "keep"]
  /\ pc' = "archived"
  /\ UNCHANGED <<defaultBranch, env, tree, userInput, calls, treeIdx,
                 renderedTemplateFiles, templateFiles, fileIdx, successfulAdditions, log,
                 exitCode, renders>>

ArchiveNext == ArchiveCheck

ArchiveSpec == ArchiveInit /\ [][ArchiveNext]_vars

(***************************************************************************)
(* Properties                                                              *)
(***************************************************************************)
\* "README.md"
O_README_md == <<"R", "E", "A", "D", "M", "E", ".", "m", "d">>
\* "package.json"
O_package_json == <<"p", "a", "c", "k", "a", "g", "e", ".", "j", "s", "o", "n">>
\* "src/index.ts"
O_src_index_ts == <<"s", "r", "c", "/", "i", "n", "d", "e", "x", ".", "t", "s">>
\* "LICENSE"
O_LICENSE == <<"L", "I", "C", "E", "N", "S", "E">>
\* "elysia"
P_elysia == <<"e", "l", "y", "s", "i", "a">>
\* "go"
P_go == <<"g", "o">>


CallsOf(op) == {i \in 1..Len(calls) : calls[i].op = op}

\* A call of the kind op has returned with an outcome in outcomes.
SomeCall(op, outcomes) == \E i \in CallsOf(op) : calls[i].outcome \in outcomes

MainErrorLogged == \E i \in 1..Len(log) : log[i] = "[ERROR][main]"

FetchErrorLogged == \E i \in 1..Len(log) : log[i] = "[ERROR][getTemplateFiles]"

\* getTemplateFiles has returned to main.
FetchReturned == pc \in {"await createOrUpdateFileContents", "done"} /\ CallsOf("getTree") # {}

\* C1: once a content fetch has failed (thrown, or returned a status other than
\* 200), getTemplateFiles has returned the empty list, whatever it had rendered
\* before: main holds no template file, writes none, and its catch block is
\* not entered (the failure is logged inside getTemplateFiles only).
C1_FailClosedOnContentFetch ==
  SomeCall("getContent", {"202", "throw"}) =>
    /\ FetchReturned
    /\ templateFiles = <<>>
    /\ CallsOf("createOrUpdateFileContents") = {}
    /\ FetchErrorLogged
    /\ ~MainErrorLogged

\* C1's case: a content fetch failed after at least one file had been rendered.
C1_Witness ==
  /\ SomeCall("getContent", {"202", "throw"})
  /\ Len(renderedTemplateFiles) >= 1
  /\ pc = "done"

\* C2: once the tree listing has failed (thrown, or returned a status other
\* than 200), getTemplateFiles has returned the empty list without any content
\* request, and main's catch block is not entered.
C2_TreeFailureYieldsEmpty ==
  SomeCall("getTree", {"202", "throw"}) =>
    /\ FetchReturned
    /\ templateFiles = <<>>
    /\ CallsOf("getContent") = {}
    /\ renders = <<>>
    /\ FetchErrorLogged
    /\ ~MainErrorLogged

\* C2's case: the listing of a tree that has a qualifying entry returned a
\* status other than 200.
C2_Witness ==
  /\ SomeCall("getTree", {"202"})
  /\ \E i \in 1..Len(tree) : Qualifies(tree[i], userInput)
  /\ pc = "done"

\* A run on the sample template for repoName foo, team Platform and variant
\* Bun in which every call succeeded, at its end.
SampleRunDone ==
  /\ tree = SampleTree
  /\ userInput.repoName = X_foo
  /\ userInput.repoTeam.name = T_Platform
  /\ userInput.repoType = X_Bun
  /\ pc = "done"
  /\ \A i \in 1..Len(calls) : calls[i].outcome \in {"200", "201"}
  /\ CallsOf("getTree") # {}

\* C3: on the sample template the pipeline outputs exactly 4 files, their paths
\* are exactly README.md, package.json, src/index.ts and LICENSE, and README.md
\* contains the repo name foo.
C3_SampleOutput ==
  SampleRunDone =>
    /\ Len(templateFiles) = 4
    /\ {templateFiles[i].path : i \in 1..Len(templateFiles)}
         = {O_README_md, O_package_json, O_src_index_ts, O_LICENSE}
    /\ \E i \in 1..Len(templateFiles) :
         /\ templateFiles[i].path = O_README_md
         /\ Includes(templateFiles[i].content, X_foo)

\* p is the file called name in some directory.
InDirectory(p, name) == Len(p) > Len(name) + 1 /\ endsWith(p, <<"/">> \o name)

\* The directory of such a p.
DirectoryOf(p, name) == SubSeq(p, 1, Len(p) - Len(name) - 1)

\* C4: a file with content at d/README.njk is rendered to path d/README.md, and
\* one at d/package.njk to d/package.json, for every directory d (the call
\* gives a file unless the template engine rejects the text).
C4_RenameKeepsDirectory ==
  \A i \in 1..Len(renders) :
    LET f == renders[i].file
        r == renders[i].result
    IN Truthy(f.content) =>
         /\ InDirectory(f.path, T_README_njk) =>
              /\ r.kind \in {"file", "throw"}
              /\ r.kind = "file" =>
                   r.path = DirectoryOf(f.path, T_README_njk) \o <<"/">> \o O_README_md
         /\ InDirectory(f.path, T_package_njk) =>
              /\ r.kind \in {"file", "throw"}
              /\ r.kind = "file" =>
                   r.path = DirectoryOf(f.path, T_package_njk) \o <<"/">> \o O_package_json

\* C4's case: package.njk in a nested directory has been rendered to a file.
C4_Witness ==
  \E i \in 1..Len(renders) :
    /\ InDirectory(renders[i].file.path, T_package_njk)
    /\ Includes(DirectoryOf(renders[i].file.path, T_package_njk), <<"/">>)
    /\ renders[i].result.kind = "file"

\* A render of a template whose name is not in the rename table.
OtherTemplate(i) ==
  /\ Truthy(renders[i].file.content)
  /\ endsWith(renders[i].file.path, T_njk)
  /\ basename(renders[i].file.path) \notin {T_README_njk, T_package_njk}

\* C5: a .njk file with content whose name is neither README.njk nor
\* package.njk keeps its path, suffix included, and its content is the text the
\* platform holds with the placeholders substituted ({{repoTeam.name}} becomes
\* the team's name), not that text itself.
C5_OtherTemplateKeepsNameIsRendered ==
  \A i \in 1..Len(renders) :
    LET r    == renders[i].result
        text == tree[renders[i].entry].text
    IN OtherTemplate(i) =>
         /\ r.kind \in {"file", "throw"}
         /\ r.kind = "file" =>
              /\ r.path = tree[renders[i].entry].path
              /\ r.content = renderString(text, userInput).out
         /\ text = C_other => r.kind = "file" /\ r.content = userInput.repoTeam.name

\* C5's case: other.njk, holding a placeholder, has been rendered.
C5_Witness ==
  \E i \in 1..Len(renders) :
    /\ OtherTemplate(i)
    /\ basename(renders[i].file.path) = N_other_njk
    /\ tree[renders[i].entry].text = C_other
    /\ renders[i].result.kind = "file"
    /\ renders[i].result.content # C_other

\* C6: a file with content whose path does not end in .njk is returned with the
\* text the platform holds, exactly (placeholders in it are not substituted),
\* and with its path.
C6_NonTemplateVerbatim ==
  \A i \in 1..Len(renders) :
    LET f == renders[i].file
        r == renders[i].result
    IN Truthy(f.content) /\ ~endsWith(f.path, T_njk) =>
         /\ r.kind = "file"
         /\ r.content = tree[renders[i].entry].text
         /\ r.path = tree[renders[i].entry].path

\* C6's case: a file that is no template and holds a placeholder was rendered.
C6_Witness ==
  \E i \in 1..Len(renders) :
    /\ ~endsWith(renders[i].file.path, T_njk)
    /\ tree[renders[i].entry].text = C_README
    /\ renders[i].result.kind = "file"

\* The files among the results of the first n calls of renderFileData, in order.
RECURSIVE FileResults(_)
FileResults(n) ==
  IF n = 0 THEN <<>>
  ELSE IF renders[n].result.kind = "file"
       THEN Append(FileResults(n - 1),
                   [path |-> renders[n].result.path, content |-> renders[n].result.content])
       ELSE FileResults(n - 1)

\* No call has failed and no render has thrown.
NoFailure ==
  /\ \A i \in 1..Len(calls) : calls[i].outcome \in {"pending", "200", "201"}
  /\ \A i \in 1..Len(renders) : renders[i].result.kind # "throw"

\* C7: for a fetched entry whose response has no content, renderFileData
\* returns undefined; nothing is appended for it (the rendered files are the
\* file results, in order); the fetch is not aborted by it (without a failure
\* nothing is logged); and the entries after it are still processed (the next
\* qualifying entry's content has been requested, or there is none and, once
\* getTemplateFiles has returned without a failure, main holds the rendered
\* files).
C7_NoContentIsSkipped ==
  \A i \in 1..Len(renders) :
    renders[i].file.content = undefined =>
      /\ renders[i].result.kind = "undefined"
      /\ renderedTemplateFiles = FileResults(Len(renders))
      /\ NoFailure => log = <<>>
      /\ LET j == NextQualifying(renders[i].entry + 1)
         IN IF j # 0
            THEN \E c \in CallsOf("getContent") : calls[c].path = tree[j].path
            ELSE NoFailure /\ FetchReturned => templateFiles = renderedTemplateFiles

\* C7's case: an entry without content was fetched, a later entry was rendered
\* to a file, and the run wrote it.
C7_Witness ==
  /\ pc = "done"
  /\ \E i, k \in 1..Len(renders) :
       /\ i < k
       /\ renders[i].file.content = undefined
       /\ renders[k].result.kind = "file"
  /\ SomeCall("createOrUpdateFileContents", {"201"})

\* The directory of the request's variant: the variant name in lower case.
VariantDirectory ==
  IF userInput.repoType = X_Bun THEN P_bun
  ELSE IF userInput.repoType = X_Elysia THEN P_elysia
       ELSE IF userInput.repoType = X_Go THEN P_go
            ELSE <<>>

\* The tree entry at position k is a blob whose path is inside the variant's
\* directory.
BlobUnderVariant(k) ==
  /\ tree[k].type = "blob"
  /\ tree[k].path # undefined
  /\ LET d == VariantDirectory
     IN /\ d # <<>>
        /\ Len(tree[k].path) > Len(d) + 1
        /\ SubSeq(tree[k].path, 1, Len(d)) = d
        /\ tree[k].path[Len(d) + 1] = "/"

\* Every content request, every render and every file main holds or writes
\* comes from a tree entry that satisfies ok.
OnlyFrom(ok(_)) ==
  /\ \A c \in CallsOf("getContent") :
       \E k \in 1..Len(tree) : tree[k].path = calls[c].path /\ ok(k)
  /\ \A i \in 1..Len(renders) : ok(renders[i].entry)
  /\ \A c \in CallsOf("createOrUpdateFileContents") :
       \E i \in 1..Len(renders) : renders[i].result.path = calls[c].path
                                  /\ renders[i].result.kind = "file"
  /\ \A k \in 1..Len(tree) :
       ~ok(k) => \A c \in CallsOf("getContent") : calls[c].path # tree[k].path

NotSymlink(k) == tree[k].mode # "120000"

BlobUnderVariantNotSymlink(k) == BlobUnderVariant(k) /\ NotSymlink(k)

\* C8 (as claimed): content is requested, rendered and written only for tree
\* entries that are blobs under the variant's directory; directories,
\* submodules, symbolic links, entries without a path and entries outside the
\* directory (a sibling that shares the name as a prefix included) never reach
\* the renderer.
C8_OnlyRegularFilesOfVariant == OnlyFrom(BlobUnderVariantNotSymlink)

\* C8 (amended): the same without the symbolic links: the listing reports a
\* symbolic link as a blob (of mode 120000), and it is requested and handed to
\* the renderer like a regular file.
C8_OnlyBlobsOfVariant == OnlyFrom(BlobUnderVariant)

\* C8's case: a run on a listing with an entry of the sibling directory bunny
\* and a file of the variant: the latter was fetched, rendered and written.
C8_Witness ==
  /\ pc = "done"
  /\ \E k \in 1..Len(tree) : tree[k].path = P_bunny_x
  /\ \E k \in 1..Len(tree) : BlobUnderVariant(k)
  /\ SomeCall("createOrUpdateFileContents", {"201"})

\* A required input is missing or empty in the environment.
MissingRequiredInput ==
  \/ env.REPO_NAME \in {undefined, <<>>}
  \/ env.REPO_TEAM \in {undefined, <<>>}
  \/ env.REPO_TYPE \in {undefined, <<>>}
  \/ /\ env.GITHUB_REPOSITORY_OWNER \in {undefined, <<>>}
     /\ env.REPO_OWNER \in {undefined, <<>>}

\* C9: when a required input is missing or empty, no network call is ever
\* issued: the run goes from its start to its end.
C9_ConfigErrorBeforeAnyCall ==
  MissingRequiredInput => calls = <<>> /\ pc \in {"start", "done"}

\* C9's case: a run without REPO_TYPE or without an owner has ended in main's
\* catch block.
C9_Witness ==
  /\ env.REPO_TYPE = undefined \/ env.GITHUB_REPOSITORY_OWNER = undefined
  /\ MissingRequiredInput
  /\ pc = "done"
  /\ MainErrorLogged

\* C10: a run that ends after all its writes exits with code 0, and a run whose
\* failure reached main's catch block has logged it and exits with a code
\* other than 0.
C10_ExitStatusReflectsOutcome ==
  pc = "done" =>
    IF MainErrorLogged THEN exitCode # 0 ELSE exitCode = 0

\* A tree listing or a content fetch has failed: the request has thrown or has
\* returned a status other than 200.
FetchFailed ==
  SomeCall("getTree", {"202", "throw"}) \/ SomeCall("getContent", {"202", "throw"})

\* C11: when the tree listing or a content fetch fails, the error is logged
\* inside getTemplateFiles, main goes on with an empty file set, issues no file
\* write, and reaches its normal end (exit code 0, nothing outstanding) without
\* entering its catch block.
C11_FetchErrorDoesNotFailRun ==
  FetchFailed =>
    /\ FetchErrorLogged
    /\ templateFiles = <<>>
    /\ CallsOf("createOrUpdateFileContents") = {}
    /\ pc = "done"
    /\ exitCode = 0
    /\ fileIdx = 0 /\ successfulAdditions = <<>>
    /\ ~MainErrorLogged
    /\ \A i \in 1..Len(calls) : calls[i].outcome # "pending"

\* C11's case: a content fetch returned a status other than 200 after the
\* repository was created and its topics set, and the run has ended.
C11_Witness ==
  /\ SomeCall("getContent", {"202"})
  /\ SomeCall("replaceAllTopics", {"200"})
  /\ pc = "done"

\* The calls of renderFileData that returned a file.
FileRenders == {i \in 1..Len(renders) : renders[i].result.kind = "file"}

\* C12: the files are written in the order their tree entries were discovered:
\* the entries are rendered in the listing's order, the k-th file write carries
\* the k-th rendered file, and a write is issued only once the one before it
\* has returned.
C12_WritesInDiscoveryOrder ==
  LET writes == CallsOf("createOrUpdateFileContents")
  IN /\ \A i, j \in 1..Len(renders) : i < j => renders[i].entry < renders[j].entry
     /\ Cardinality(writes) <= Cardinality(FileRenders)
     /\ \A k \in 1..Cardinality(writes) :
          LET c == Nth(writes, k)
              r == renders[Nth(FileRenders, k)].result
          IN /\ calls[c].path = r.path
             /\ calls[c].content = Base64Encode(r.content)
             /\ k < Cardinality(writes) => calls[c].outcome \in {"200", "201"}

\* C12's case: two files of different paths have been written, and the run has
\* ended.
C12_Witness ==
  /\ pc = "done"
  /\ \E c, d \in CallsOf("createOrUpdateFileContents") :
       /\ c < d
       /\ calls[c].path # calls[d].path
       /\ calls[d].outcome = "201"

\* The calls issued after call i.
After(i) == (i + 1)..Len(calls)

\* The call has failed: it has thrown, or a fetch returned a status other than
\* 200.
Failed(i) == calls[i].outcome \in {"202", "throw"}

\* C13: no call is made twice and none is issued again after it failed: the
\* repository is created once, the topics are replaced once, the tree is listed
\* once, the content of a tree path is requested once, the k-th file write is
\* the write of the k-th file main holds (each file is written once); and after
\* a failed call there is no call of its kind.
C13_NoRetry ==
  /\ \A op \in {"createInOrg", "replaceAllTopics", "getTree"} : Cardinality(CallsOf(op)) <= 1
  /\ \A c, d \in CallsOf("getContent") : c # d => calls[c].path # calls[d].path
  /\ LET writes == CallsOf("createOrUpdateFileContents")
     IN /\ Cardinality(writes) <= Len(templateFiles)
        /\ \A k \in 1..Cardinality(writes) :
             calls[Nth(writes, k)].path = templateFiles[k].path
  /\ \A i \in 1..Len(calls) :
       Failed(i) => \A j \in After(i) : calls[j].op # calls[i].op

\* C13's case: the second of two content requests has failed, and the run has
\* ended.
C13_Witness ==
  /\ pc = "done"
  /\ \E c, d \in CallsOf("getContent") : c < d /\ calls[c].outcome = "200" /\ Failed(d)

\* The six team records.
KnownTeams == {RepoTeams(k) : k \in RepoTeamNames}

\* getInput has returned a request.
RequestProduced == userInput # NoInput

\* C14: every request getInput returns has a non-empty name, a non-empty
\* variant and one of the six team records as its team; a REPO_TEAM that is
\* set, not empty and not the name of a team yields no request whose team is
\* missing or unknown.
C14_RequestIsWellFormed ==
  RequestProduced =>
    /\ userInput.repoName \notin {undefined, <<>>}
    /\ userInput.repoType \notin {undefined, <<>>}
    /\ userInput.repoTeam \in KnownTeams
    /\ env.REPO_TEAM \notin RepoTeamNames => userInput.repoTeam # undefinedTeam

\* The repository of the archive task, with the decision taken on it.
Decided(marker, created, committed, decision) ==
  /\ pc = "archived"
  /\ archive = [marker |-> marker, created |-> created, committed |-> committed,
                decision |-> decision]

\* C16: a repository is archived exactly when it has no .NOARCHIVE file, more
\* than 6 months have passed since its creation and more than 3 since its last
\* commit. A repository created 7 months ago, last committed 4 months ago,
\* without the file, is archived; with the file, or last committed 2 months
\* ago, or created 5 months ago, it is kept.
C16_ArchivalIsConjunction ==
  pc = "archived" =>
    /\ archive.decision = "archive"
         <=> (~archive.marker /\ archive.created > 6 /\ archive.committed > 3)
    /\ archive.decision \in {"archive", "keep"}
    /\ ~Decided(FALSE, 7, 4, "keep")
    /\ ~Decided(TRUE, 7, 4, "archive")
    /\ ~Decided(FALSE, 7, 2, "archive")
    /\ ~Decided(FALSE, 5, 4, "archive")

\* C16's case: the repository created 7 months ago, last committed 4 months
\* ago, without the file, has been found eligible.
C16_Witness == Decided(FALSE, 7, 4, "archive")

\* The i-th call of renderFileData was on a template with content whose text
\* the template engine rejects.
BadTemplateRendered(i) ==
  /\ Truthy(renders[i].file.content)
  /\ endsWith(renders[i].file.path, T_njk)
  /\ ~renderString(tree[renders[i].entry].text, userInput).ok

\* C17 (as claimed): a failure of the template engine while a file is rendered
\* is an uncaught exception that terminates the run: the process crashes with
\* a non-zero exit code, getTemplateFiles returns nothing to main, and main
\* does not go on to its write stage.
C17_RenderFailureIsUncaught ==
  (\E i \in 1..Len(renders) : BadTemplateRendered(i)) =>
    /\ pc = "crashed"
    /\ exitCode # 0
    /\ ~FetchReturned
    /\ ~FetchErrorLogged

\* C17 (amended): a failure of the template engine while a file is rendered is
\* thrown inside getTemplateFiles' try block: its catch block logs it and
\* returns the empty list, as for a failed fetch; no entry after it is fetched,
\* main goes on to its write stage with no file, writes nothing and ends
\* normally without entering its own catch block.
C17_RenderFailureIsCaughtByFetcher ==
  \A i \in 1..Len(renders) :
    BadTemplateRendered(i) =>
      /\ renders[i].result.kind = "throw"
      /\ i = Len(renders)
      /\ \A c \in CallsOf("getContent") :
           calls[c].outcome = "200" /\ \E k \in 1..renders[i].entry : tree[k].path = calls[c].path
      /\ FetchErrorLogged
      /\ FetchReturned
      /\ templateFiles = <<>>
      /\ CallsOf("createOrUpdateFileContents") = {}
      /\ pc = "done"
      /\ exitCode = 0
      /\ ~MainErrorLogged

\* C17's case: the template engine rejected a template after another file had
\* been rendered, and the run has ended.
C17_Witness ==
  /\ pc = "done"
  /\ renderedTemplateFiles # <<>>
  /\ \E i \in 1..Len(renders) : BadTemplateRendered(i)

\* The calls that create or change the new repository.
Materializer == {"createInOrg", "replaceAllTopics", "createOrUpdateFileContents"}

\* C18: when the creation of the repository, the replacement of its topics or
\* a file write fails, the failure is logged by main's catch block, once, and
\* no call is issued after the failed one: the run has ended, and the files
\* after the one whose write failed are not written.
C18_MaterializerFailureIsFatal ==
  \A i \in 1..Len(calls) :
    calls[i].op \in Materializer /\ calls[i].outcome = "throw" =>
      /\ i = Len(calls)
      /\ MainErrorLogged
      /\ Cardinality({k \in 1..Len(log) : log[k] = "[ERROR][main]"}) = 1
      /\ pc = "done"
      /\ calls[i].op = "createInOrg" => Len(calls) = 1
      /\ calls[i].op = "replaceAllTopics" => Len(calls) = 2
      /\ calls[i].op = "createOrUpdateFileContents" =>
           Cardinality(CallsOf("createOrUpdateFileContents")) = fileIdx

\* C18's case: the write of the first of several files has failed, and the run
\* has ended.
C18_Witness ==
  /\ pc = "done"
  /\ Len(templateFiles) >= 2
  /\ fileIdx = 1
  /\ SomeCall("createOrUpdateFileContents", {"throw"})

\* The calls that have not returned.
Outstanding == {i \in 1..Len(calls) : calls[i].outcome = "pending"}

\* The run is suspended on a call of the kind op.
AwaitingCall(op) ==
  \/ op = "createInOrg" /\ pc = "await createInOrg"
  \/ op = "replaceAllTopics" /\ pc = "await replaceAllTopics"
  \/ op = "getTree" /\ pc = "await getTree"
  \/ op = "getContent" /\ pc = "await getContent"
  \/ op = "createOrUpdateFileContents" /\ pc = "await createOrUpdateFileContents"

\* C19: the calls are issued one at a time: at most one call is outstanding, it
\* is the last one issued, and the run is suspended on it; every call before it
\* has returned.
C19_OneCallAtATime ==
  /\ Cardinality(Outstanding) <= 1
  /\ \A i \in Outstanding : i = Len(calls) /\ AwaitingCall(calls[i].op)
  /\ pc \in {"start", "done", "crashed"} => Outstanding = {}
  /\ pc \notin {"start", "done", "crashed"} => Outstanding = {Len(calls)}

\* C19's case: the second file write is outstanding, after the creation of the
\* repository, the replacement of its topics, the tree listing, two content
\* requests and the first write have returned.
C19_Witness ==
  /\ pc = "await createOrUpdateFileContents"
  /\ fileIdx = 2
  /\ Cardinality(CallsOf("getContent")) >= 2
  /\ CallsOf("replaceAllTopics") # {}

\* The tree entry at position k qualifies, and its content request returned
\* status 200 with a payload.
Backed(k) ==
  /\ Qualifies(tree[k], userInput)
  /\ Truthy(ContentResponse(tree[k]).content)
  /\ \E c \in CallsOf("getContent") :
       calls[c].path = tree[k].path /\ calls[c].outcome = "200"

BackedEntries == {k \in 1..Len(tree) : Backed(k)}

\* The file f is what renderFileData returned for the entry at position k.
RenderedFrom(f, k) ==
  \E i \in 1..Len(renders) :
    /\ renders[i].entry = k
    /\ renders[i].result = RenderedTemplateFile(f.path, f.content)

\* getTemplateFiles has returned its list of rendered files (line 266).
FetchReturnedList == FetchReturned /\ ~FetchErrorLogged

Decode(payload, encoding) ==
  IF encoding = T_base64 THEN Base64Decode(payload) ELSE payload

\* C21: for every file with content, the text that is rendered (a template) or
\* copied (any other file) is the payload decoded under the encoding its
\* content response declares.
C21_DecodesByStatedEncoding ==
  \A i \in 1..Len(renders) :
    LET f    == renders[i].file
        r    == renders[i].result
        text == Decode(f.content, f.encoding)
    IN r.kind = "file" =>
         r.content = IF endsWith(f.path, T_njk)
                     THEN renderString(text, userInput).out
                     ELSE text

\* A step that is a call of renderFileData.
IsRenderCall == pc = "render" /\ pc' = "rendered"

\* C22: a call of renderFileData issues no network call, leaves the request,
\* the listing and its content responses as they were, and leaves the list of
\* rendered files (and the files main holds) as it was; the call's result is
\* all it adds.
C22_RenderHasNoEffect ==
  [][IsRenderCall =>
       /\ calls' = calls
       /\ userInput' = userInput
       /\ env' = env
       /\ tree' = tree
       /\ renderedTemplateFiles' = renderedTemplateFiles
       /\ templateFiles' = templateFiles
       /\ successfulAdditions' = successfulAdditions
       /\ log' = log
       /\ SubSeq(renders', 1, Len(renders)) = renders
       /\ Len(renders') = Len(renders) + 1
       /\ renders'[Len(renders')].file = ContentResponse(tree[treeIdx])]_vars

\* C22's case: renderFileData has returned a file, and the list of rendered
\* files is still empty.
C22_Witness ==
  /\ pc = "rendered"
  /\ renders[1].result.kind = "file"
  /\ renderedTemplateFiles = <<>>
  /\ calls = <<>>

\* Every file main holds has been written.
AllWritten ==
  \A k \in 1..Len(templateFiles) :
    \E c \in CallsOf("createOrUpdateFileContents") :
      calls[c].path = templateFiles[k].path /\ calls[c].outcome \in {"200", "201"}

\* The run has ended: main has reached its end after its writes, or its catch
\* block has run; or the process, started without a token, has ended while
\* loading the module.
Ended ==
  \/ pc = "done" /\ exitCode = 0 /\ (MainErrorLogged \/ (FetchReturned /\ AllWritten))
  \/ pc = "crashed"

\* C23: when every network call eventually returns, every run eventually ends,
\* with all its rendered files written or in main's catch block at the first
\* fatal error, and stays ended: it neither loops nor waits forever.
C23_EveryRunTerminates == <>[]Ended

\* C23's case: a run has ended after writing several files.
C23_Witness ==
  /\ pc = "done"
  /\ ~MainErrorLogged
  /\ Len(templateFiles) >= 2
  /\ AllWritten

\* The branch a fetch call reads: the tree request names it (tree_sha); a
\* content request names none and reads the default branch.
RefRead(c) == IF calls[c].op = "getTree" THEN calls[c].path ELSE defaultBranch

\* C24: the tree listing and every content fetch read the template repository
\* at one reference, the tip of its default branch.
C24_OneReferenceForListingAndContent ==
  \A c \in CallsOf("getTree") \cup CallsOf("getContent") :
    /\ RefRead(c) = defaultBranch
    /\ \A d \in CallsOf("getTree") \cup CallsOf("getContent") : RefRead(d) = RefRead(c)

\* The calls of the fetch-and-render stage.
FetchCalls == CallsOf("getTree") \cup CallsOf("getContent")

\* C25: the stages of a run follow each other: the repository's creation has
\* returned before the tree listing is requested; the topic replacement, when
\* there is one, comes after the creation and before the listing; every file
\* write comes after every fetch call, all of which have returned; and a run
\* whose fetch fails has created the repository and writes no file to it.
C25_StageOrdering ==
  /\ \A t \in FetchCalls :
       \E c \in CallsOf("createInOrg") : c < t /\ calls[c].outcome = "201"
  /\ \A p \in CallsOf("replaceAllTopics") :
       /\ \E c \in CallsOf("createInOrg") : c < p /\ calls[c].outcome = "201"
       /\ \A t \in FetchCalls : p < t /\ calls[p].outcome = "200"
  /\ \A w \in CallsOf("createOrUpdateFileContents") :
       /\ CallsOf("getTree") # {}
       /\ \A t \in FetchCalls : t < w /\ calls[t].outcome = "200"
  /\ FetchFailed =>
       /\ SomeCall("createInOrg", {"201"})
       /\ CallsOf("createOrUpdateFileContents") = {}

\* C25's case: a run that created the repository, replaced its topics, listed
\* the tree, fetched two files and then wrote them.
C25_Witness ==
  /\ CallsOf("replaceAllTopics") # {}
  /\ Cardinality(CallsOf("getContent")) >= 2
  /\ Cardinality(CallsOf("createOrUpdateFileContents")) >= 2
  /\ pc = "done"
  /\ ~MainErrorLogged

\* C26: the files rendered from different tree entries have different paths,
\* and no path is written twice in a run.
C26_DistinctDestinationPaths ==
  /\ \A i, j \in FileRenders :
       renders[i].entry # renders[j].entry => renders[i].result.path # renders[j].result.path
  /\ \A c, d \in CallsOf("createOrUpdateFileContents") :
       c # d => calls[c].path # calls[d].path

\* The path is inside the directory of the request's variant: it begins with
\* the variant's name in lower case and a separator.
UnderVariant(p) == startsWith(p, toLowerCase(userInput.repoType) \o <<"/">>)

\* C27: every rendered file's path, every path main holds and every path
\* written to the new repository begins with the lower-cased variant name and
\* '/': the variant directory is never stripped.
C27_PathsKeepVariantDirectory ==
  /\ \A i \in FileRenders : UnderVariant(renders[i].result.path)
  /\ \A k \in 1..Len(renderedTemplateFiles) : UnderVariant(renderedTemplateFiles[k].path)
  /\ \A k \in 1..Len(templateFiles) : UnderVariant(templateFiles[k].path)
  /\ \A c \in CallsOf("createOrUpdateFileContents") : UnderVariant(calls[c].path)
  /\ \A k \in 1..Len(successfulAdditions) : UnderVariant(successfulAdditions[k])

\* C27's case: the template bun/README.njk has been rendered and written as
\* bun/README.md.
C27_Witness ==
  /\ \E i \in FileRenders :
       /\ renders[i].file.path = P_bun_README_njk
       /\ renders[i].result.path = P_bun_README_md
  /\ \E c \in CallsOf("createOrUpdateFileContents") :
       calls[c].path = P_bun_README_md /\ calls[c].outcome = "201"
  /\ userInput.repoType = X_Bun

\* REPO_TOPICS is set and its first comma-separated element is not empty.
TopicsGiven ==
  /\ env.REPO_TOPICS \notin {undefined, <<>>}
  /\ Head(env.REPO_TOPICS) # ","

\* "api"
O_api == <<"a", "p", "i">>

\* C28: once the repository is created, the topics are replaced exactly once,
\* with the list REPO_TOPICS splits into at its commas, if REPO_TOPICS is set
\* and its first element is not empty; if it is unset, empty or begins with a
\* comma there is no topic call, whatever its later elements are. ("api,bun"
\* gives the call with api and bun; ",api" gives none.)
C28_TopicsCallIffFirstTopic ==
  /\ SomeCall("createInOrg", {"201"}) =>
       IF TopicsGiven
       THEN /\ Cardinality(CallsOf("replaceAllTopics")) = 1
            /\ \A p \in CallsOf("replaceAllTopics") :
                 /\ calls[p].names = Split(env.REPO_TOPICS, <<",">>)
                 /\ env.REPO_TOPICS = X_topics_ab => calls[p].names = <<O_api, P_bun>>
       ELSE CallsOf("replaceAllTopics") = {}
  /\ ~SomeCall("createInOrg", {"201"}) => CallsOf("replaceAllTopics") = {}

\* C28's case: a run with REPO_TOPICS ",api" has created the repository and
\* ended after its writes without a topic call.
C28_Witness ==
  /\ env.REPO_TOPICS = X_topics_comma
  /\ SomeCall("createInOrg", {"201"})
  /\ CallsOf("replaceAllTopics") = {}
  /\ SomeCall("createOrUpdateFileContents", {"201"})
  /\ pc = "done"

\* The qualifying entries of the listing.
QualifyingEntries == {k \in 1..Len(tree) : Qualifies(tree[k], userInput)}

\* C29: a fetched file whose payload is the empty string gives no rendered
\* file, is never written and raises no error: the fetch goes on after it, and
\* without a failed call or a rejected template nothing is logged.
C29_EmptyPayloadIsSkipped ==
  \A i \in 1..Len(renders) :
    renders[i].file.content = <<>> =>
      /\ renders[i].result.kind = "undefined"
      /\ \A k \in 1..Len(renderedTemplateFiles) :
           renderedTemplateFiles[k].path # renders[i].file.path
      /\ \A c \in CallsOf("createOrUpdateFileContents") : calls[c].path # renders[i].file.path
      /\ NoFailure => log = <<>>
      /\ NoFailure /\ pc = "done" =>
           Cardinality(CallsOf("createOrUpdateFileContents")) < Cardinality(QualifyingEntries)

\* C29's case: a run in which every call succeeded has ended, having fetched a
\* zero-byte file and written fewer files than there are qualifying entries.
C29_Witness ==
  /\ pc = "done"
  /\ NoFailure
  /\ \E i \in 1..Len(renders) : renders[i].file.content = <<>>
  /\ SomeCall("createOrUpdateFileContents", {"201"})
  /\ Cardinality(CallsOf("createOrUpdateFileContents")) < Cardinality(QualifyingEntries)

\* The REPO_TYPE of the run is set, not empty, and not a variant of RepoType.
UnknownRepoType == Truthy(env.REPO_TYPE) /\ env.REPO_TYPE \notin {X_Bun, X_Elysia}

\* The path is in the directory named by the run's REPO_TYPE in lower case.
UnderUnknownName(p) == p # undefined /\ startsWith(p, toLowerCase(env.REPO_TYPE) \o <<"/">>)

\* The blobs of the listing in that directory.
MatchedEntries ==
  {k \in 1..Len(tree) : tree[k].type = "blob" /\ UnderUnknownName(tree[k].path)}

\* C30: a REPO_TYPE outside the variants is not a configuration error. The
\* request is built with it; once the run is past its start the repository
\* creation has been called; only paths in the directory of the lower-cased
\* name are fetched and written; and a run without a failed call ends normally,
\* with nothing logged, having written one file per matching entry (none when
\* the listing has no such directory).
C30_UnknownTypeIsNotRejected ==
  UnknownRepoType =>
    /\ ~getInput(env).threw
    /\ getInput(env).value.repoType = env.REPO_TYPE
    /\ pc # "start" =>
         /\ userInput.repoType = env.REPO_TYPE
         /\ CallsOf("createInOrg") # {}
    /\ \A c \in CallsOf("getContent") : UnderUnknownName(calls[c].path)
    /\ \A c \in CallsOf("createOrUpdateFileContents") : UnderUnknownName(calls[c].path)
    /\ NoFailure /\ pc = "done" =>
         /\ exitCode = 0
         /\ log = <<>>
         /\ SomeCall("createInOrg", {"201"})
         /\ Cardinality(CallsOf("createOrUpdateFileContents")) = Cardinality(MatchedEntries)

\* C30's case: a run with REPO_TYPE=Go has ended without a failure, on a
\* listing with a bun file and a go file: the repository was created and the go
\* file is the one file written.
C30_Witness ==
  /\ UnknownRepoType
  /\ pc = "done"
  /\ NoFailure
  /\ SomeCall("createInOrg", {"201"})
  /\ \E k \in 1..Len(tree) : tree[k].path = P_bun_LICENSE
  /\ Cardinality(MatchedEntries) = 1
  /\ Cardinality(CallsOf("createOrUpdateFileContents")) = 1
  /\ \A c \in CallsOf("createOrUpdateFileContents") :
       calls[c].path = P_go_main_go /\ calls[c].outcome = "201"

=============================================================================
